---- MODULE Spec2Model ----
(***************************************************************************)
(* hetzner-flatcar: the deployment run of main() (src/main.go), with the   *)
(* cloud provider, the transpiler and the SSH peer as nondeterministic     *)
(* collaborators.  src/main.go holds two bodies of main(): the current one *)
(* (lines 88-438, "copy 1") and an earlier one (lines 511-785, "copy 2").  *)
(* The variable `copy` says which body a run executes.                     *)
(***************************************************************************)
EXTENDS Integers, Sequences, FiniteSets, TLC

\* ---------------------------------------------------------------- bounds
\* how many follow-up actions a create call may return (NextActions)
MaxNext == 2
\* how many progress values a progress feed delivers before it closes
MaxProgress == 3

\* how many lines of a command's output can still wait in its pipe when Run returns
MaxLines == 1

\* ------------------------------------------------------ program constants
\* initialRetries := 30
initialRetries == 30

\* -------------------------------------------------------------- values
Nil == "nil"
Err == "err"
NoServer == [exists |-> FALSE, attached |-> FALSE, rescue |-> FALSE, running |-> FALSE]

\* the asynchronous actions a run can hold a handle of
ActionIds ==
  {<<"attach", 0>>, <<"create", 0>>, <<"rescue", 0>>, <<"power", 0>>}
    \cup {<<"next", i>> : i \in 1..MaxNext}

\* progress values a feed can carry: two below 100, and 100
ProgressValues == {0, 50, 100}

\* the progress a running action reports
RunningProgress == {50}

VARIABLES
  copy,              \* which body of main() runs: 1 (lines 88-438), 2 (lines 511-785)
  run,               \* number of the current run of the tool
  pc,                \* position of main()
  exitCode,          \* -1 while running, 0 after return, 1 after log.Fatalf / os.Exit(1)
  fatalMsg,          \* the log.Fatalf message ("" when none)
  fatalArg,          \* what the message's verb names: a command or the cause ("" when none)
  fatalStep,         \* the step of the deployment whose failure was fatal ("" when none)
  argc,              \* len(os.Args), 0 before it is read
  cfg,               \* the settings of config.toml that are not empty, after ParseConfig
  cfgErr,            \* the error ParseConfig returned ("unset" before it returns)
  tmplRef,           \* where templateContent comes from: the template (or command) that
                     \* rendered it; "unset" before the render step and once
                     \* transpileConfig has taken templateContent
  transpileIn,       \* the stages of transpileConfig that fail for the rendered text
  transpileCalls,    \* history: the stages transpileConfig invoked, in order
  installScript,     \* cfg.Flatcar.InstallScript as the installer step read it: unread/set/empty
  placed,            \* history: the artifacts placed on the machine, in order
  cmdFailed,         \* history: the remote command whose Run returned an error ("" when none)
  command,           \* the loop variable of `for _, command := range commands` ("" before)
  readers,           \* the commands whose reader goroutine has been started
  pipe,              \* per command: lines written to its stdout pipe and not yet read
  printed,           \* the line a reader logged last, <<label, producer>> (<<>> before)
  provider,          \* the provider's machine: exists, attached, rescue, running
  act,               \* status of every asynchronous action: none/running/success/error
  server,            \* main's `server` record (a snapshot of provider), NoServer when nil
  serverExists,      \* main's serverExists
  serverType,        \* main's serverType: "unset", Nil or "found"
  image,             \* main's image
  location,          \* main's location (copy 1) / datacenter (copy 2)
  createOpts,        \* the ServerCreateOpts passed to Create (<<>> before)
  nextActions,       \* len(serverCreateResult.NextActions)
  idx,               \* index of the range loop over NextActions / over commands
  watching,          \* the action waitForAction watches (<<>> when none)
  success,           \* waitForAction's success
  progressOpen,      \* the progress channel is open
  errorChannel,      \* values pending on the error channel
  errClosed,         \* the error channel is closed
  delivered,         \* history: progress values waitForAction received
  waitErr,           \* waitForAction's return value ("unset" before it returns)
  errSent,           \* history: the value the error feed delivered ("none" before)
  tmpFile,           \* the transient ignition file: none/exists/removed
  renderedPath,      \* main's renderedPath: "" or "path"
  deferred,          \* deferred calls registered so far, in registration order
  retries,           \* main's retries
  connectionSuccess, \* main's connectionSuccess
  sshClient,         \* number of the attempt that produced sshClient, 0 when nil
  sessionOpen,       \* the SSH session is open
  ops,               \* history: the external operations issued in this run, in order
  waited,            \* history: the actions whose wait returned no error, in order
  fatalCond,         \* history: a fatal condition has occurred in this run
  lookupResult,      \* history: what the lookup by name found: none/error/absent/detached/attached
  resolveFailed,     \* history: a create-path resource lookup failed or found nothing
  netFails,          \* history: connection attempts that failed with a network error
  otherFails,        \* history: connection attempts that failed with another error
  resolved,          \* history: the Machine Resolver finished (render was reached)
  prevResolved,      \* history: the Machine Resolver finished in the previous run
  refMissing,        \* history: the ssh key or network lookup failed or found nothing
  summary            \* history: the success summary was printed

ctl      == <<pc, exitCode, fatalMsg, fatalArg, fatalStep, fatalCond>>
cfgVars  == <<argc, cfg, cfgErr>>
pipeVars == <<tmplRef, transpileIn, transpileCalls>>
sessVars == <<installScript, placed, cmdFailed>>
outVars  == <<command, readers, pipe, printed>>
resVars  == <<server, serverExists, serverType, image, location, createOpts, nextActions>>
fileVars == <<tmpFile, renderedPath, deferred>>
sshVars  == <<retries, connectionSuccess, sshClient, sessionOpen, netFails, otherFails>>
waitVars == <<watching, success, progressOpen, errorChannel, errClosed, delivered, waitErr,
             errSent>>
envVars  == <<provider, act>>
vars == <<copy, run, ctl, cfgVars, pipeVars, sessVars, outVars, resVars, idx, fileVars, sshVars, waitVars, envVars,
          ops, waited, lookupResult, resolveFailed, resolved, prevResolved, refMissing, summary>>

\* ------------------------------------------------------------- helpers
\* control moves on to position p
Goto(p) == pc' = p /\ UNCHANGED <<exitCode, fatalMsg, fatalArg, fatalStep, fatalCond>>

\* log.Fatalf(msg): the message is printed and the process exits with status 1;
\* deferred calls do not run
\* the step of the deployment a position of main() belongs to: arguments and
\* configuration (lines 90-101), machine resolution (103-208), configuration pipeline
\* (210-276), rescue sequencing (278-321), remote session (323-437)
StepOf(p) ==
  CASE p \in {"args", "parseconfig"} -> "configuration"
    [] p \in {"sshkey", "network", "lookup", "existing", "c_servertype", "c_image",
              "c_location", "create", "wait_create", "wait_next", "refetch"} -> "resolution"
    [] p \in {"render", "transpile", "return"} -> "pipeline"
    [] p \in {"rescue", "wait_rescue", "power", "wait_power", "sleep"} -> "rescue"
    [] OTHER -> "session"

FatalfArg(msg, arg) ==
  /\ pc' = "exit" /\ exitCode' = 1 /\ fatalCond' = TRUE
  /\ fatalMsg' = msg /\ fatalArg' = arg /\ fatalStep' = StepOf(pc)

Fatalf(msg) == FatalfArg(msg, "")

\* an external operation is issued
Op(o) == ops' = Append(ops, o)

Has(o) == SelectSeq(ops, LAMBDA x : x = o) # <<>>
Count(o) == Len(SelectSeq(ops, LAMBDA x : x = o))

\* the provider's record as a lookup returns it
Snapshot == provider

\* ------------------------------------------------- waitForAction (53-69)
\* for progress := range progressChannel { if progress == 100 { success = true } }
LoopBody_Last(s, progress) == progress = 100
LoopBody(s, progress) == IF progress = 100 THEN TRUE ELSE s

\* if !success { err = <-errorChannel }; return err
\* (a receive from a closed, empty channel yields the zero value, nil)
WaitResult_AlwaysNil(s, ch) == Nil
WaitResult(s, ch) == IF ~s THEN (IF ch = <<>> THEN Nil ELSE Head(ch)) ELSE Nil

\* the receive on the error channel can complete
WaitCanReturn_Timeout == TRUE
WaitCanReturn == ~progressOpen /\ (success \/ errorChannel # <<>> \/ errClosed)

WaitPcs == {"wait_create", "wait_next", "wait_rescue", "wait_power"}

\* the action handed to waitForAction at each call site
WaitTarget(p, i) ==
  CASE p = "wait_create" -> <<"create", 0>>
    [] p = "wait_next"   -> <<"next", i>>
    [] p = "wait_rescue" -> <<"rescue", 0>>
    [] p = "wait_power"  -> <<"power", 0>>

\* for _, pastCreateAction := range serverCreateResult.NextActions: the loop is over
NextActionsDone_FirstOnly(i, n) == i >= 1
NextActionsDone(i, n) == i >= n

\* where main continues after a wait that returned nil
AfterWaitPc(p, i, n) ==
  CASE p = "wait_create" -> IF NextActionsDone(0, n) THEN "refetch" ELSE "wait_next"
    [] p = "wait_next"   -> IF NextActionsDone(i, n) THEN "refetch" ELSE "wait_next"
    [] p = "wait_rescue" -> "power"
    [] p = "wait_power"  -> "sleep"

AfterWaitIdx(p, i) ==
  CASE p = "wait_create" -> 1
    [] p = "wait_next"   -> i + 1
    [] OTHER             -> i

ClearWait ==
  /\ watching' = <<>>
  /\ success' = FALSE
  /\ progressOpen' = FALSE
  /\ errorChannel' = <<>>
  /\ errClosed' = FALSE
  /\ delivered' = <<>>
  /\ waitErr' = "unset"
  /\ errSent' = "none"

\* progressChannel, errorChannel := actionClient.WatchProgress(ctx, action); success := false
WaitForActionCall ==
  /\ pc \in WaitPcs
  /\ watching = <<>>
  /\ watching' = WaitTarget(pc, idx)
  /\ success' = FALSE
  /\ progressOpen' = TRUE
  /\ errorChannel' = <<>>
  /\ errClosed' = FALSE
  /\ delivered' = <<>>
  /\ waitErr' = "unset"
  /\ errSent' = "none"
  /\ Op(pc)
  /\ UNCHANGED <<copy, run, outVars, cfgVars, pipeVars, sessVars, ctl, resVars, idx, fileVars, sshVars, envVars,
                 waited, lookupResult, resolveFailed, resolved, prevResolved, refMissing, summary>>

\* The client's poller feeds the two channels from the action's status: a running
\* action yields a progress value below 100, a succeeded one yields 100 (the send
\* does not block, so the value may be missed) and nil on the error channel, a
\* failed one (or a failed poll) yields its error; then both channels are closed.
WatchProgressPoll ==
  /\ pc \in WaitPcs
  /\ watching # <<>>
  /\ progressOpen
  /\ \/ /\ act[watching] = "running"
        /\ Len(delivered) < MaxProgress
        /\ \E p \in RunningProgress :
             /\ delivered' = Append(delivered, p)
             /\ success' = LoopBody(success, p)
        /\ UNCHANGED <<progressOpen, errorChannel, errClosed, errSent>>
     \/ /\ act[watching] = "success"
        /\ \E got \in BOOLEAN :
             /\ delivered' = IF got THEN Append(delivered, 100) ELSE delivered
             /\ success' = IF got THEN LoopBody(success, 100) ELSE success
        /\ errorChannel' = <<Nil>>
        /\ errSent' = Nil
        /\ progressOpen' = FALSE
        /\ errClosed' = TRUE
     \/ /\ act[watching] \in {"running", "error"}
        /\ errorChannel' = <<Err>>
        /\ errSent' = Err
        /\ progressOpen' = FALSE
        /\ errClosed' = TRUE
        /\ UNCHANGED <<delivered, success>>
  /\ UNCHANGED <<watching, waitErr>>
  /\ UNCHANGED <<copy, run, outVars, cfgVars, pipeVars, sessVars, ctl, resVars, idx, fileVars, sshVars, envVars,
                 ops, waited, lookupResult, resolveFailed, resolved, prevResolved, refMissing, summary>>

\* waitForAction returns; main checks `if err != nil { log.Fatalf(...) }`
WaitForActionReturn ==
  /\ pc \in WaitPcs
  /\ watching # <<>>
  /\ WaitCanReturn
  /\ LET err == WaitResult(success, errorChannel) IN
       IF err # Nil
       THEN /\ Fatalf("error waiting for action")
            /\ UNCHANGED <<idx, waited>>
       ELSE /\ Goto(AfterWaitPc(pc, idx, nextActions))
            /\ idx' = AfterWaitIdx(pc, idx)
            /\ waited' = Append(waited, watching)
  /\ ClearWait
  /\ UNCHANGED <<copy, run, outVars, cfgVars, pipeVars, sessVars, resVars, fileVars, sshVars, envVars,
                 ops, lookupResult, resolveFailed, resolved, prevResolved, refMissing, summary>>

\* ------------------------------------------------------------ provider
\* what a finished action does to the provider's machine
Effect(a, n) ==
  CASE a = <<"attach", 0>> -> [provider EXCEPT !.attached = TRUE]
    [] a = <<"create", 0>> -> IF n = 0 THEN [provider EXCEPT !.attached = TRUE] ELSE provider
    [] a = <<"next", 1>>   -> [provider EXCEPT !.attached = TRUE]
    [] a = <<"rescue", 0>> -> [provider EXCEPT !.rescue = TRUE]
    [] a = <<"power", 0>>  -> [provider EXCEPT !.running = TRUE]
    [] OTHER               -> provider

\* an asynchronous action reaches its terminal state, at any time after its request
ProviderFinish ==
  /\ \E a \in ActionIds :
       /\ act[a] = "running"
       /\ \E ok \in BOOLEAN :
            /\ act' = [act EXCEPT ![a] = IF ok THEN "success" ELSE "error"]
            /\ provider' = IF ok THEN Effect(a, nextActions) ELSE provider
  /\ UNCHANGED <<copy, run, outVars, cfgVars, pipeVars, sessVars, ctl, resVars, idx, fileVars, sshVars, waitVars,
                 ops, waited, lookupResult, resolveFailed, resolved, prevResolved, refMissing, summary>>

\* ------------------------------------------ main: arguments and lookups
\* if len(os.Args) == 1 { usage; os.Exit(1) }
CheckArgs ==
  /\ pc = "args"
  /\ \E n \in {1, 2} :
       /\ argc' = n
       /\ IF n = 1 THEN Fatalf("usage") ELSE Goto("parseconfig")
  /\ UNCHANGED <<cfg, cfgErr>>
  /\ UNCHANGED <<copy, run, outVars, pipeVars, sessVars, resVars, idx, fileVars, sshVars, waitVars, envVars,
                 ops, waited, lookupResult, resolveFailed, resolved, prevResolved, refMissing, summary>>

\* the settings of config.toml that verifyConfig looks at; the location setting is
\* HCloud.Location in src/unnamed/part_004 and HCloud.Datacenter in src/config.go
Settings == {"Token", "SSHKey", "PrivateNetwork", "ServerType", "Location", "Image",
             "Version", "ConfigTemplate"}

\* verifyConfig's return value for a config whose non-empty settings are conf
VerifyErr_NoVersion(c, conf) ==
  IF "Token" \notin conf THEN "hcloud token missing"
  ELSE IF "SSHKey" \notin conf THEN "ssh key missing"
  ELSE IF "PrivateNetwork" \notin conf THEN "private network missing"
  ELSE IF "ServerType" \notin conf THEN "server type missing"
  ELSE IF "Location" \notin conf
       THEN (IF c = 1 THEN "location missing" ELSE "datacenter missing")
  ELSE Nil
VerifyErr(c, conf) ==
  IF "Token" \notin conf THEN "hcloud token missing"
  ELSE IF "SSHKey" \notin conf THEN "ssh key missing"
  ELSE IF "PrivateNetwork" \notin conf THEN "private network missing"
  ELSE IF "ServerType" \notin conf THEN "server type missing"
  ELSE IF "Location" \notin conf
       THEN (IF c = 1 THEN "location missing" ELSE "datacenter missing")
  ELSE IF "Version" \notin conf THEN "flatcar version missing"
  ELSE Nil

\* the config as verifyConfig leaves it: Image is defaulted once the five settings
\* before it are present, ConfigTemplate once Version is present too
VerifyConf(conf) ==
  IF ~({"Token", "SSHKey", "PrivateNetwork", "ServerType", "Location"} \subseteq conf)
  THEN conf
  ELSE IF "Version" \notin conf THEN conf \cup {"Image"}
  ELSE conf \cup {"Image", "ConfigTemplate"}

\* ParseConfig: toml.DecodeFile, then verifyConfig
ParseConfig(c, decoded, file) ==
  IF ~decoded THEN [conf |-> file, err |-> "decode error"]
  ELSE [conf |-> VerifyConf(file), err |-> VerifyErr(c, file)]

\* cfg, err := ParseConfig("config.toml"); if err != nil { log.Fatalf(...) }
ParseConfigStep ==
  /\ pc = "parseconfig"
  /\ \E decoded \in BOOLEAN, file \in SUBSET Settings :
       /\ decoded \/ file = {}
       /\ LET r == ParseConfig(copy, decoded, file) IN
            /\ cfg' = r.conf
            /\ cfgErr' = r.err
            /\ IF r.err # Nil
               THEN FatalfArg("error parsing config", r.err)
               ELSE Goto("sshkey")
  /\ UNCHANGED argc
  /\ UNCHANGED <<copy, run, outVars, pipeVars, sessVars, resVars, idx, fileVars, sshVars, waitVars, envVars,
                 ops, waited, lookupResult, resolveFailed, resolved, prevResolved, refMissing, summary>>

\* if sshKey == nil { ... } / if privateNetwork == nil { ... }: the lookup found
\* no such resource
Missing_Never(r) == FALSE
Missing(r) == r = Nil

\* sshKey, _, err := client.SSHKey.GetByName(...)
GetSSHKey ==
  /\ pc = "sshkey"
  /\ Op("get_sshkey")
  /\ \E r \in {Err, Nil, "found"} :
       /\ refMissing' = (refMissing \/ r # "found")
       /\ CASE r = Err    -> Fatalf("error requesting ssh key")
            [] Missing(r) -> Fatalf("ssh key doesn't exist")
            [] OTHER      -> Goto("network")
  /\ UNCHANGED <<copy, run, outVars, cfgVars, pipeVars, sessVars, resVars, idx, fileVars, sshVars, waitVars, envVars,
                 waited, lookupResult, resolveFailed, resolved, prevResolved, summary>>

\* privateNetwork, _, err := client.Network.GetByName(...)
GetNetwork ==
  /\ pc = "network"
  /\ Op("get_network")
  /\ \E r \in {Err, Nil, "found"} :
       /\ refMissing' = (refMissing \/ r # "found")
       /\ CASE r = Err    -> Fatalf("error requesting network")
            [] Missing(r) -> Fatalf("network doesn't exist")
            [] OTHER      -> Goto("lookup")
  /\ UNCHANGED <<copy, run, outVars, cfgVars, pipeVars, sessVars, resVars, idx, fileVars, sshVars, waitVars, envVars,
                 waited, lookupResult, resolveFailed, resolved, prevResolved, summary>>

\* server, _, err := client.Server.GetByName(...); serverExists = server != nil
LookupServer ==
  /\ pc = "lookup"
  /\ Op("lookup")
  /\ \E failed \in BOOLEAN :
       IF failed
       THEN /\ Fatalf("error finding server")
            /\ lookupResult' = "error"
            /\ UNCHANGED <<server, serverExists>>
       ELSE /\ server' = IF provider.exists THEN Snapshot ELSE NoServer
            /\ serverExists' = provider.exists
            /\ lookupResult' = IF ~provider.exists THEN "absent"
                               ELSE IF provider.attached THEN "attached" ELSE "detached"
            /\ Goto(IF provider.exists THEN "existing" ELSE "c_servertype")
  /\ UNCHANGED <<serverType, image, location, createOpts, nextActions>>
  /\ UNCHANGED <<copy, run, outVars, cfgVars, pipeVars, sessVars, idx, fileVars, sshVars, waitVars, envVars,
                 waited, resolveFailed, resolved, prevResolved, refMissing, summary>>

\* ------------------------------------------- main: the existing machine
\* for _, attachedPrivateNet := range server.PrivateNet { if ...ID == privateNetwork.ID }
privateNetworkAttached_Never(srv) == FALSE
privateNetworkAttached(srv) == srv.attached

\* if !privateNetworkAttached { action := AttachToNetwork(...); err / action.Error() fatal }
\* The attach action is not handed to waitForAction.
ExistingServer ==
  /\ pc = "existing"
  /\ IF privateNetworkAttached(server)
     THEN /\ Goto("render")
          /\ resolved' = TRUE
          /\ UNCHANGED <<ops, act>>
     ELSE /\ Op("attach")
          /\ \E r \in {"reqerr", "acterr", "ok"} :
               CASE r = "reqerr" ->
                      /\ Fatalf("error request attach to network")
                      /\ UNCHANGED <<act, resolved>>
                 [] r = "acterr" ->
                      /\ Fatalf("error attaching server to network")
                      /\ act' = [act EXCEPT ![<<"attach", 0>>] = "error"]
                      /\ UNCHANGED resolved
                 [] OTHER ->
                      /\ Goto("render")
                      /\ act' = [act EXCEPT ![<<"attach", 0>>] = "running"]
                      /\ resolved' = TRUE
  /\ UNCHANGED <<copy, run, outVars, cfgVars, pipeVars, sessVars, resVars, idx, fileVars, sshVars, waitVars, provider,
                 waited, lookupResult, resolveFailed, prevResolved, refMissing, summary>>

\* ------------------------------------------------ main: the create path
\* serverType, _, err := client.ServerType.GetByName(...); only err is checked
GetServerType ==
  /\ pc = "c_servertype"
  /\ Op("get_servertype")
  /\ \E r \in {Err, Nil, "found"} :
       IF r = Err
       THEN /\ Fatalf("error finding server type")
            /\ resolveFailed' = TRUE
            /\ UNCHANGED serverType
       ELSE /\ Goto("c_image")
            /\ serverType' = r
            /\ resolveFailed' = (resolveFailed \/ r = Nil)
  /\ UNCHANGED <<server, serverExists, image, location, createOpts, nextActions>>
  /\ UNCHANGED <<copy, run, outVars, cfgVars, pipeVars, sessVars, idx, fileVars, sshVars, waitVars, envVars,
                 waited, lookupResult, resolved, prevResolved, refMissing, summary>>

\* image, _, err := client.Image.Get(...); only err is checked
GetImage ==
  /\ pc = "c_image"
  /\ Op("get_image")
  /\ \E r \in {Err, Nil, "found"} :
       IF r = Err
       THEN /\ Fatalf("error finding image")
            /\ resolveFailed' = TRUE
            /\ UNCHANGED image
       ELSE /\ Goto("c_location")
            /\ image' = r
            /\ resolveFailed' = (resolveFailed \/ r = Nil)
  /\ UNCHANGED <<server, serverExists, serverType, location, createOpts, nextActions>>
  /\ UNCHANGED <<copy, run, outVars, cfgVars, pipeVars, sessVars, idx, fileVars, sshVars, waitVars, envVars,
                 waited, lookupResult, resolved, prevResolved, refMissing, summary>>

\* copy 1 (170-173) checks the location lookup's err; copy 2 (595) assigns the
\* datacenter lookup's err and never reads it
LocationErrChecked(c) == c = 1

\* location, _, err := client.Location.GetByName(...)      (copy 1)
\* datacenter, _, err := client.Datacenter.GetByName(...)  (copy 2)
GetLocation ==
  /\ pc = "c_location"
  /\ Op("get_location")
  /\ \E r \in {Err, Nil, "found"} :
       IF r = Err /\ LocationErrChecked(copy)
       THEN /\ Fatalf("error finding location")
            /\ resolveFailed' = TRUE
            /\ UNCHANGED location
       ELSE /\ pc' = "create"
            /\ UNCHANGED <<exitCode, fatalMsg, fatalArg, fatalStep>>
            /\ fatalCond' = (fatalCond \/ r = Err)
            /\ location' = IF r = Err THEN Nil ELSE r
            /\ resolveFailed' = (resolveFailed \/ r # "found")
  /\ UNCHANGED <<server, serverExists, serverType, image, createOpts, nextActions>>
  /\ UNCHANGED <<copy, run, outVars, cfgVars, pipeVars, sessVars, idx, fileVars, sshVars, waitVars, envVars,
                 waited, lookupResult, resolved, prevResolved, refMissing, summary>>

\* startAfterCreate := false
startAfterCreate_True == TRUE
startAfterCreate == FALSE

\* serverCreateResult, _, err := client.Server.Create(ctx, createOpts)
CreateServer ==
  /\ pc = "create"
  /\ Op("create")
  /\ createOpts' = [StartAfterCreate |-> startAfterCreate, ServerType |-> serverType,
                    Image |-> image, Location |-> location, Networks |-> "privateNetwork"]
  /\ \E r \in {"reqerr", "acterr", "ok"} :
       CASE r = "reqerr" ->
              /\ Fatalf("error creating server")
              /\ UNCHANGED <<envVars, nextActions>>
         [] r = "acterr" ->
              /\ Fatalf("error creating server")
              /\ act' = [act EXCEPT ![<<"create", 0>>] = "error"]
              /\ UNCHANGED <<provider, nextActions>>
         [] OTHER ->
              /\ Goto("wait_create")
              /\ \E n \in 0..MaxNext :
                   /\ nextActions' = n
                   /\ act' = [a \in ActionIds |->
                               IF a = <<"create", 0>> \/ (a[1] = "next" /\ a[2] <= n)
                               THEN "running" ELSE act[a]]
              /\ provider' = [provider EXCEPT !.exists = TRUE,
                                              !.running = startAfterCreate]
  /\ idx' = 0
  /\ UNCHANGED <<server, serverExists, serverType, image, location>>
  /\ UNCHANGED <<copy, run, outVars, cfgVars, pipeVars, sessVars, fileVars, sshVars, waitVars,
                 waited, lookupResult, resolveFailed, resolved, prevResolved, refMissing, summary>>

\* server, _, err = client.Server.GetByID(ctx, serverCreateResult.Server.ID)
Refetch ==
  /\ pc = "refetch"
  /\ Op("getbyid")
  /\ \E failed \in BOOLEAN :
       IF failed
       THEN /\ Fatalf("error requesting updated server object")
            /\ UNCHANGED <<server, resolved>>
       ELSE /\ Goto("render")
            /\ server' = Snapshot
            /\ resolved' = TRUE
  /\ UNCHANGED <<serverExists, serverType, image, location, createOpts, nextActions>>
  /\ UNCHANGED <<copy, run, outVars, cfgVars, pipeVars, sessVars, idx, fileVars, sshVars, waitVars, envVars,
                 waited, lookupResult, resolveFailed, prevResolved, refMissing, summary>>

\* --------------------------------------------- main: configuration pipeline
\* how the text is rendered: copy 1 runs cfg.Flatcar.TemplateCommand when it is set
\* (lines 242-264), otherwise, and always in copy 2, the native template is used
RenderMeans(c) == IF c = 1 THEN {"native", "command"} ELSE {"native"}

\* the template files the native renderer can be given: one whose references are all
\* defined, one that names a field templateData does not have, one that names a key
\* cfg.Flatcar.TemplateStatic does not have, and one that cannot be loaded
Templates == {"complete", "undefined_field", "undefined_static_key", "unloadable"}

\* template.New(...).ParseFiles(...) and tmpl.Execute(buffer, templateData{...}):
\* Execute fails on a field the struct does not have; the template is created without
\* Option("missingkey=error"), so a key missing from the Static map yields the
\* zero value and no error
NativeRender(t) ==
  CASE t = "unloadable"      -> "load_err"
    [] t = "undefined_field" -> "render_err"
    [] OTHER                 -> "ok"

\* yaml.Marshal(templateData) and tmplCmd.Output()
CommandRender == {"cmd_ok", "marshal_err", "cmd_err"}

RenderMsg(r) ==
  CASE r = "load_err"    -> "error loading template"
    [] r = "render_err"  -> "error rendering template"
    [] r = "marshal_err" -> "error marshaling hcloud data to yaml"
    [] r = "cmd_err"     -> "error running template command"
    [] OTHER             -> ""

\* lines 210-265: templateContent is produced or the run ends
Render ==
  /\ pc = "render"
  /\ Op("render")
  /\ \E means \in RenderMeans(copy) :
       IF means = "native"
       THEN \E t \in Templates :
              /\ tmplRef' = t
              /\ IF NativeRender(t) = "ok"
                 THEN Goto("transpile")
                 ELSE Fatalf(RenderMsg(NativeRender(t)))
       ELSE /\ tmplRef' = "command"
            /\ \E r \in CommandRender :
                 IF r = "cmd_ok" THEN Goto("transpile") ELSE Fatalf(RenderMsg(r))
  /\ UNCHANGED <<transpileIn, transpileCalls>>
  /\ UNCHANGED <<copy, run, outVars, cfgVars, sessVars, resVars, idx, fileVars, sshVars, waitVars, envVars,
                 waited, lookupResult, resolveFailed, resolved, prevResolved, refMissing, summary>>

\* transpileConfig: the step at which it returns
TranspileOutcomes == {"parse_fatal", "convert_fatal", "marshal_err", "create_err", "write_err", "ok"}

\* the file os.CreateTemp made exists once line 42 succeeded
TranspileFile(r) == IF r \in {"write_err", "ok"} THEN "exists" ELSE "none"

TranspileErr(r) ==
  CASE r = "parse_fatal"   -> "config parsing failed"
    [] r = "convert_fatal" -> "config conversion failed"
    [] r = "marshal_err"   -> "marshal error"
    [] r = "create_err"    -> "create error"
    [] r = "write_err"     -> "write error"
    [] OTHER               -> Nil

\* the calls transpileConfig makes, in order: clconfig.Parse, clconfig.Convert,
\* json.Marshal, os.CreateTemp, outFile.Write
Stages == <<"Parse", "Convert", "Marshal", "CreateTemp", "Write">>

\* transpileConfig, given the stages that fail for its input: the chain of
\* `if report.IsFatal()` / `if err != nil` returns at the first stage that fails
TranspileStep_IgnoreParse(faults) ==
  IF "Convert" \in faults THEN "convert_fatal"
  ELSE IF "Marshal" \in faults THEN "marshal_err"
  ELSE IF "CreateTemp" \in faults THEN "create_err"
  ELSE IF "Write" \in faults THEN "write_err"
  ELSE "ok"
TranspileStep(faults) ==
  IF "Parse" \in faults THEN "parse_fatal"
  ELSE IF "Convert" \in faults THEN "convert_fatal"
  ELSE IF "Marshal" \in faults THEN "marshal_err"
  ELSE IF "CreateTemp" \in faults THEN "create_err"
  ELSE IF "Write" \in faults THEN "write_err"
  ELSE "ok"

\* the stages invoked by the time transpileConfig returns at r
TranspileCalls(r) ==
  CASE r = "parse_fatal"   -> SubSeq(Stages, 1, 1)
    [] r = "convert_fatal" -> SubSeq(Stages, 1, 2)
    [] r = "marshal_err"   -> SubSeq(Stages, 1, 3)
    [] r = "create_err"    -> SubSeq(Stages, 1, 4)
    [] OTHER               -> Stages

\* renderedPath, err := transpileConfig(templateContent); defer os.Remove(path)
Transpile ==
  /\ pc = "transpile"
  /\ Op("transpile")
  /\ \E faults \in SUBSET {Stages[i] : i \in 1..Len(Stages)} :
       LET r == TranspileStep(faults) IN
         /\ r \in TranspileOutcomes
         /\ transpileIn' = faults
         /\ transpileCalls' = TranspileCalls(r)
         /\ tmpFile' = TranspileFile(r)
         /\ IF TranspileErr(r) # Nil
            THEN /\ FatalfArg("error transpiling config", TranspileErr(r))
                 /\ UNCHANGED <<renderedPath, deferred>>
            ELSE /\ Goto("rescue")
                 /\ renderedPath' = "path"
                 /\ deferred' = Append(deferred, "remove")
  /\ tmplRef' = "unset"
  /\ UNCHANGED <<copy, run, outVars, cfgVars, sessVars, resVars, idx, sshVars, waitVars, envVars,
                 waited, lookupResult, resolveFailed, resolved, prevResolved, refMissing, summary>>

\* ------------------------------------------------- main: rescue and power
\* if !server.RescueEnabled { result := client.Server.EnableRescue(...) }
EnableRescue ==
  /\ pc = "rescue"
  /\ IF server.rescue
     THEN /\ Goto("power")
          /\ UNCHANGED <<ops, act>>
     ELSE /\ Op("enable_rescue")
          /\ \E r \in {"reqerr", "acterr", "ok"} :
               CASE r = "reqerr" ->
                      /\ Fatalf("error sending enablerescue request")
                      /\ UNCHANGED act
                 [] r = "acterr" ->
                      /\ Fatalf("error enabling rescue")
                      /\ act' = [act EXCEPT ![<<"rescue", 0>>] = "error"]
                 [] OTHER ->
                      /\ Goto("wait_rescue")
                      /\ act' = [act EXCEPT ![<<"rescue", 0>>] = "running"]
  /\ UNCHANGED <<copy, run, outVars, cfgVars, pipeVars, sessVars, resVars, idx, fileVars, sshVars, waitVars, provider,
                 waited, lookupResult, resolveFailed, resolved, prevResolved, refMissing, summary>>

\* if server.Status == hcloud.ServerStatusRunning { Reboot } else { Poweron }
PowerOp_AlwaysPoweron(srv) == "poweron"
PowerOp(srv) == IF srv.running THEN "reboot" ELSE "poweron"

Power ==
  /\ pc = "power"
  /\ Op(PowerOp(server))
  /\ \E r \in {"reqerr", "acterr", "ok"} :
       CASE r = "reqerr" ->
              /\ Fatalf("error sending reboot or poweron request")
              /\ UNCHANGED act
         [] r = "acterr" ->
              /\ Fatalf("error rebooting or powering on server")
              /\ act' = [act EXCEPT ![<<"power", 0>>] = "error"]
         [] OTHER ->
              /\ Goto("wait_power")
              /\ act' = [act EXCEPT ![<<"power", 0>>] = "running"]
  /\ UNCHANGED <<copy, run, outVars, cfgVars, pipeVars, sessVars, resVars, idx, fileVars, sshVars, waitVars, provider,
                 waited, lookupResult, resolveFailed, resolved, prevResolved, refMissing, summary>>

\* time.Sleep(30 * time.Second)
Sleep ==
  /\ pc = "sleep"
  /\ Op("sleep")
  /\ Goto("sshauth")
  /\ UNCHANGED <<copy, run, outVars, cfgVars, pipeVars, sessVars, resVars, idx, fileVars, sshVars, waitVars, envVars,
                 waited, lookupResult, resolveFailed, resolved, prevResolved, refMissing, summary>>

\* ------------------------------------------------ main: the SSH session
\* sshAuth, err = goph.Key(...) / goph.UseAgent(); copy 1 reports an error with
\* log.Fatalf("error building ssh authentication: %v"), copy 2 with log.Fatal(err),
\* the cause alone; then lines 333-337:
\* initialRetries := 30; retries := 1; connectionSuccess := false
SSHAuthMsg(c) == IF c = 1 THEN "error building ssh authentication" ELSE ""

SSHAuth ==
  /\ pc = "sshauth"
  /\ \E ok \in BOOLEAN :
       IF ok THEN Goto("connect") ELSE Fatalf(SSHAuthMsg(copy))
  /\ retries' = 1
  /\ connectionSuccess' = FALSE
  /\ UNCHANGED <<sshClient, sessionOpen, netFails, otherFails>>
  /\ UNCHANGED <<copy, run, outVars, cfgVars, pipeVars, sessVars, resVars, idx, fileVars, waitVars, envVars,
                 ops, waited, lookupResult, resolveFailed, resolved, prevResolved, refMissing, summary>>

\* for retries <= initialRetries
RetryCond_Less(r) == r < initialRetries
RetryCond_OneMore(r) == r <= initialRetries + 1
RetryCond(r) == r <= initialRetries

\* a retried attempt continues at the head of the loop
RetryTarget_Power == "power"
RetryTarget == "connect"

\* if netError, ok := err.(net.Error); ok { retry } else { log.Fatalf(...) }
Retryable_Any(e) == TRUE
Retryable(e) == e = "neterr"

\* one turn of the loop of lines 338-354: the condition, one goph.NewUnknown, and on
\* a net.Error retries++ and time.Sleep(retryDelay)
Connect ==
  /\ pc = "connect"
  /\ IF ~RetryCond(retries)
     THEN /\ Goto("checkconn")
          /\ UNCHANGED <<ops, sshVars>>
     ELSE \E r \in {"ok", "neterr", "other"} :
            /\ netFails' = IF r = "neterr" THEN netFails + 1 ELSE netFails
            /\ otherFails' = IF r = "other" THEN otherFails + 1 ELSE otherFails
            /\ CASE r = "ok" ->
                     /\ Op("connect")
                     /\ connectionSuccess' = TRUE
                     /\ sshClient' = Count("connect") + 1
                     /\ sessionOpen' = TRUE
                     /\ Goto("checkconn")
                     /\ UNCHANGED retries
                [] r # "ok" /\ Retryable(r) ->
                     /\ ops' = ops \o <<"connect", "delay">>
                     /\ retries' = retries + 1
                     /\ Goto(RetryTarget)
                     /\ UNCHANGED <<connectionSuccess, sshClient, sessionOpen>>
                [] OTHER ->
                     /\ Op("connect")
                     /\ Fatalf("unretriable error while etablishing ssh connection")
                     /\ UNCHANGED <<retries, connectionSuccess, sshClient, sessionOpen>>
  /\ UNCHANGED <<copy, run, outVars, cfgVars, pipeVars, sessVars, resVars, idx, fileVars, waitVars, envVars,
                 waited, lookupResult, resolveFailed, resolved, prevResolved, refMissing, summary>>

\* if !connectionSuccess { log.Fatalf(...) }; defer sshClient.Close()
CheckConnection ==
  /\ pc = "checkconn"
  /\ IF ~connectionSuccess
     THEN /\ Fatalf("ssh connection wasn't successful")
          /\ UNCHANGED deferred
     ELSE /\ Goto("installer")
          /\ deferred' = Append(deferred, "close")
  /\ UNCHANGED <<tmpFile, renderedPath>>
  /\ UNCHANGED <<copy, run, outVars, cfgVars, pipeVars, sessVars, resVars, idx, sshVars, waitVars, envVars,
                 ops, waited, lookupResult, resolveFailed, resolved, prevResolved, refMissing, summary>>

\* installScriptTarget := "/root/flatcar-install"; ignitionTarget := "/root/ignition.json"
installScriptTarget == "/root/flatcar-install"
ignitionTarget == "/root/ignition.json"

\* cfg.Flatcar.InstallScript: a local file or empty (copy 1); copy 2 has no such
\* setting and always takes the local file "flatcar-install"
InstallScripts(c) == IF c = 1 THEN {"set", "empty"} ELSE {"set"}

\* if cfg.Flatcar.InstallScript != "" { sshClient.Upload(...) } else { curl on the machine }
InstallerMeans_AlwaysUpload(c, script) == "upload_installer"
InstallerMeans(c, script) ==
  IF c = 1 /\ script = "empty" THEN "fetch_installer" ELSE "upload_installer"

PlaceInstaller ==
  /\ pc = "installer"
  /\ \E script \in InstallScripts(copy) :
       LET means == InstallerMeans(copy, script) IN
         /\ installScript' = script
         /\ \E r \in {"ok", "err"} \cup (IF means = "fetch_installer" THEN {"cmd_err"} ELSE {}) :
              CASE r = "ok" ->
                     /\ Op(means)
                     /\ placed' = Append(placed, installScriptTarget)
                     /\ Goto("upload_ign")
                [] r = "err" ->
                     /\ Op(means)
                     /\ Fatalf(IF means = "upload_installer"
                               THEN "error uploading flatcar-install script"
                               ELSE "error downloading install script")
                     /\ UNCHANGED placed
                [] OTHER ->
                     /\ Fatalf("error creating cmd for install script download")
                     /\ UNCHANGED <<ops, placed>>
  /\ UNCHANGED cmdFailed
  /\ UNCHANGED <<copy, run, outVars, cfgVars, pipeVars, resVars, idx, fileVars, sshVars, waitVars, envVars,
                 waited, lookupResult, resolveFailed, resolved, prevResolved, refMissing, summary>>

\* err = sshClient.Upload(renderedPath, ignitionTarget)
UploadIgnition ==
  /\ pc = "upload_ign"
  /\ Op("upload_ignition")
  /\ \E ok \in BOOLEAN :
       IF ok
       THEN /\ Goto("commands")
            /\ placed' = Append(placed, ignitionTarget)
       ELSE /\ Fatalf("error uploading ignition file")
            /\ UNCHANGED placed
  /\ idx' = 1
  /\ UNCHANGED <<installScript, cmdFailed>>
  /\ UNCHANGED <<copy, run, outVars, cfgVars, pipeVars, resVars, fileVars, sshVars, waitVars, envVars,
                 waited, lookupResult, resolveFailed, resolved, prevResolved, refMissing, summary>>

\* the commands of the loop: four install commands; copy 2 appends "shutdown -r now"
Commands(c) ==
  IF c = 1 THEN <<"cmd1", "cmd2", "cmd3", "cmd4">>
           ELSE <<"cmd1", "cmd2", "cmd3", "cmd4", "reboot_cmd">>

\* every command a reader goroutine can belong to
CommandSet == {Commands(2)[i] : i \in 1..Len(Commands(2))}

\* no command has output waiting
NoOutput == [c \in CommandSet |-> 0]

\* err = cmd.Run(); if err != nil { log.Fatalf("error running command '%s': %v\n", ...) }
RunErrFatal_Never(text) == FALSE
RunErrFatal(text) == TRUE

\* one turn of `for _, command := range commands`: the loop variable is assigned,
\* sshClient.Command, cmd.StdoutPipe, `go func() {...}()` starts the reader, cmd.Run
\* runs the command to its end.  Lines is the set of numbers of output lines that can
\* still wait in the pipe when Run returns: the lines read before that were logged
\* while the loop variable held this command; nothing makes Run wait for the reader.
RunCommandWith(Lines) ==
  /\ pc = "commands"
  /\ idx <= Len(Commands(copy))
  /\ LET text == Commands(copy)[idx]
         continue == /\ idx' = idx + 1
                     /\ Goto(IF idx < Len(Commands(copy)) THEN "commands"
                             ELSE IF copy = 1 THEN "rebootcmd" ELSE "summary")
         started == /\ readers' = readers \cup {text}
                    /\ \E n \in Lines : pipe' = [pipe EXCEPT ![text] = n]
     IN /\ command' = text
        /\ \E r \in {"create_err", "pipe_err", "run_err", "ok"} :
             CASE r = "create_err" ->
                    /\ FatalfArg("error creating goph.Cmd", text)
                    /\ UNCHANGED <<ops, idx, cmdFailed, readers, pipe>>
               [] r = "pipe_err" ->
                    /\ FatalfArg("error creating stdoutpipe", text)
                    /\ UNCHANGED <<ops, idx, cmdFailed, readers, pipe>>
               [] r = "run_err" ->
                    /\ Op(text)
                    /\ started
                    /\ cmdFailed' = text
                    /\ IF RunErrFatal(text)
                       THEN /\ FatalfArg("error running command", text)
                            /\ UNCHANGED idx
                       ELSE continue
               [] OTHER ->
                    /\ Op(text)
                    /\ started
                    /\ continue
                    /\ UNCHANGED cmdFailed
  /\ UNCHANGED <<installScript, placed, printed>>
  /\ UNCHANGED <<copy, run, cfgVars, pipeVars, resVars, fileVars, sshVars, waitVars, envVars,
                 waited, lookupResult, resolveFailed, resolved, prevResolved, refMissing, summary>>

\* the whole run does not follow the commands' output, which has no effect on main():
\* every line has been read when Run returns
RunCommand == RunCommandWith({0})

\* copy 1: cmd, err := sshClient.Command("reboot now"); err = cmd.Run(), whose
\* error is only logged
RebootCommand ==
  /\ pc = "rebootcmd"
  /\ \E r \in {"create_err", "run_err", "ok"} :
       IF r = "create_err"
       THEN /\ Fatalf("error creating goph.Cmd for reboot command")
            /\ UNCHANGED <<ops, cmdFailed>>
       ELSE /\ Op("reboot_cmd")
            /\ cmdFailed' = IF r = "run_err" THEN "reboot_cmd" ELSE cmdFailed
            /\ Goto("summary")
  /\ UNCHANGED <<installScript, placed>>
  /\ UNCHANGED <<copy, run, outVars, cfgVars, pipeVars, resVars, idx, fileVars, sshVars, waitVars, envVars,
                 waited, lookupResult, resolveFailed, resolved, prevResolved, refMissing, summary>>

\* log.Printf("successfully (re)installed ...")
PrintSummary ==
  /\ pc = "summary"
  /\ summary' = TRUE
  /\ Goto("return")
  /\ UNCHANGED <<copy, run, outVars, cfgVars, pipeVars, sessVars, resVars, idx, fileVars, sshVars, waitVars, envVars,
                 ops, waited, lookupResult, resolveFailed, resolved, prevResolved, refMissing>>

\* main returns: the deferred calls run, last registered first: sshClient.Close(),
\* then os.Remove(path), which ends in log.Fatalf when it fails
ReturnMain ==
  /\ pc = "return"
  /\ sessionOpen' = FALSE
  /\ deferred' = <<>>
  /\ \E removed \in BOOLEAN :
       IF removed
       THEN /\ tmpFile' = "removed"
            /\ pc' = "done"
            /\ exitCode' = 0
            /\ UNCHANGED <<fatalMsg, fatalArg, fatalStep, fatalCond>>
       ELSE /\ Fatalf("error removing tempfile")
            /\ UNCHANGED tmpFile
  /\ UNCHANGED <<renderedPath, retries, connectionSuccess, sshClient, netFails, otherFails>>
  /\ UNCHANGED <<copy, run, outVars, cfgVars, pipeVars, sessVars, resVars, idx, waitVars, envVars,
                 ops, waited, lookupResult, resolveFailed, resolved, prevResolved, refMissing, summary>>

\* ------------------------------------------------------------- the runs
InitProviders ==
  {NoServer} \cup
  {[exists |-> TRUE, attached |-> a, rescue |-> r, running |-> u] :
     a \in BOOLEAN, r \in BOOLEAN, u \in BOOLEAN}

\* the state of a process that has just started
FreshProcess ==
  /\ pc = "args"
  /\ exitCode = -1
  /\ fatalMsg = ""
  /\ fatalArg = ""
  /\ fatalStep = ""
  /\ argc = 0
  /\ cfg = {}
  /\ cfgErr = "unset"
  /\ tmplRef = "unset"
  /\ transpileIn = {}
  /\ transpileCalls = <<>>
  /\ installScript = "unread"
  /\ placed = <<>>
  /\ cmdFailed = ""
  /\ command = ""
  /\ readers = {}
  /\ pipe = NoOutput
  /\ printed = <<>>
  /\ otherFails = 0
  /\ fatalCond = FALSE
  /\ server = NoServer
  /\ serverExists = FALSE
  /\ serverType = "unset"
  /\ image = "unset"
  /\ location = "unset"
  /\ createOpts = <<>>
  /\ nextActions = 0
  /\ idx = 0
  /\ watching = <<>>
  /\ success = FALSE
  /\ progressOpen = FALSE
  /\ errorChannel = <<>>
  /\ errClosed = FALSE
  /\ delivered = <<>>
  /\ waitErr = "unset"
  /\ errSent = "none"
  /\ tmpFile = "none"
  /\ renderedPath = ""
  /\ deferred = <<>>
  /\ retries = 0
  /\ connectionSuccess = FALSE
  /\ sshClient = 0
  /\ sessionOpen = FALSE
  /\ netFails = 0
  /\ ops = <<>>
  /\ waited = <<>>
  /\ lookupResult = "none"
  /\ resolveFailed = FALSE
  /\ resolved = FALSE
  /\ summary = FALSE

Init ==
  /\ copy \in {1, 2}
  /\ run = 1
  /\ provider \in InitProviders
  /\ act = [a \in ActionIds |-> "none"]
  /\ prevResolved = FALSE
  /\ refMissing = FALSE
  /\ FreshProcess

\* the tool is run a second time, for the same name, once the first process has ended
\* and the provider has no action in progress
Restart ==
  /\ pc \in {"exit", "done"}
  /\ run = 1
  /\ \A a \in ActionIds : act[a] # "running"
  /\ run' = run + 1
  /\ prevResolved' = resolved
  /\ act' = [a \in ActionIds |-> "none"]
  \* a new process: every variable of main() as in FreshProcess
  /\ pc' = "args"
  /\ exitCode' = -1
  /\ fatalMsg' = ""
  /\ fatalArg' = ""
  /\ fatalStep' = ""
  /\ argc' = 0
  /\ cfg' = {}
  /\ cfgErr' = "unset"
  /\ tmplRef' = "unset"
  /\ transpileIn' = {}
  /\ transpileCalls' = <<>>
  /\ installScript' = "unread"
  /\ placed' = <<>>
  /\ cmdFailed' = ""
  /\ command' = ""
  /\ readers' = {}
  /\ pipe' = NoOutput
  /\ printed' = <<>>
  /\ otherFails' = 0
  /\ fatalCond' = FALSE
  /\ server' = NoServer
  /\ serverExists' = FALSE
  /\ serverType' = "unset"
  /\ image' = "unset"
  /\ location' = "unset"
  /\ createOpts' = <<>>
  /\ nextActions' = 0
  /\ idx' = 0
  /\ watching' = <<>>
  /\ success' = FALSE
  /\ progressOpen' = FALSE
  /\ errorChannel' = <<>>
  /\ errClosed' = FALSE
  /\ delivered' = <<>>
  /\ waitErr' = "unset"
  /\ errSent' = "none"
  /\ tmpFile' = "none"
  /\ renderedPath' = ""
  /\ deferred' = <<>>
  /\ retries' = 0
  /\ connectionSuccess' = FALSE
  /\ sshClient' = 0
  /\ sessionOpen' = FALSE
  /\ netFails' = 0
  /\ ops' = <<>>
  /\ waited' = <<>>
  /\ lookupResult' = "none"
  /\ resolveFailed' = FALSE
  /\ refMissing' = FALSE
  /\ resolved' = FALSE
  /\ summary' = FALSE
  /\ UNCHANGED <<copy, provider>>

Next ==
  \/ CheckArgs
  \/ ParseConfigStep
  \/ GetSSHKey
  \/ GetNetwork
  \/ LookupServer
  \/ ExistingServer
  \/ GetServerType
  \/ GetImage
  \/ GetLocation
  \/ CreateServer
  \/ WaitForActionCall
  \/ WatchProgressPoll
  \/ WaitForActionReturn
  \/ Refetch
  \/ Render
  \/ Transpile
  \/ EnableRescue
  \/ Power
  \/ Sleep
  \/ SSHAuth
  \/ Connect
  \/ CheckConnection
  \/ PlaceInstaller
  \/ UploadIgnition
  \/ RunCommand
  \/ RebootCommand
  \/ PrintSummary
  \/ ReturnMain
  \/ ProviderFinish
  \/ Restart

Spec == Init /\ [][Next]_vars

\* ----------------------------------------- waitForAction on its own
\* waitForAction is called once with feeds that carry any values in any order: the
\* rest of the program stands still.
InitWait ==
  /\ copy = 1
  /\ run = 1
  /\ provider = NoServer
  /\ act = [a \in ActionIds |-> "none"]
  /\ prevResolved = FALSE
  /\ refMissing = FALSE
  /\ pc = "w_feed"
  /\ exitCode = -1
  /\ fatalMsg = ""
  /\ fatalArg = ""
  /\ fatalStep = ""
  /\ argc = 0
  /\ cfg = {}
  /\ cfgErr = "unset"
  /\ tmplRef = "unset"
  /\ transpileIn = {}
  /\ transpileCalls = <<>>
  /\ installScript = "unread"
  /\ placed = <<>>
  /\ cmdFailed = ""
  /\ command = ""
  /\ readers = {}
  /\ pipe = NoOutput
  /\ printed = <<>>
  /\ otherFails = 0
  /\ fatalCond = FALSE
  /\ server = NoServer
  /\ serverExists = FALSE
  /\ serverType = "unset"
  /\ image = "unset"
  /\ location = "unset"
  /\ createOpts = <<>>
  /\ nextActions = 0
  /\ idx = 0
  /\ watching = <<"create", 0>>
  /\ success = FALSE
  /\ progressOpen = TRUE
  /\ errorChannel = <<>>
  /\ errClosed = FALSE
  /\ delivered = <<>>
  /\ waitErr = "unset"
  /\ errSent = "none"
  /\ tmpFile = "none"
  /\ renderedPath = ""
  /\ deferred = <<>>
  /\ retries = 0
  /\ connectionSuccess = FALSE
  /\ sshClient = 0
  /\ sessionOpen = FALSE
  /\ netFails = 0
  /\ ops = <<>>
  /\ waited = <<>>
  /\ lookupResult = "none"
  /\ resolveFailed = FALSE
  /\ resolved = FALSE
  /\ summary = FALSE

restOfProgram == <<copy, run, ctl, outVars, cfgVars, pipeVars, sessVars, resVars, idx, fileVars, sshVars, envVars,
                   ops, waited, lookupResult, resolveFailed, resolved, prevResolved, refMissing, summary>>

\* the progress feed delivers a value and the range loop takes it
FeedProgress ==
  /\ pc = "w_feed"
  /\ progressOpen
  /\ Len(delivered) < MaxProgress
  /\ \E p \in ProgressValues :
       /\ delivered' = Append(delivered, p)
       /\ success' = LoopBody(success, p)
  /\ UNCHANGED <<watching, progressOpen, errorChannel, errClosed, waitErr, errSent>>
  /\ UNCHANGED restOfProgram

\* the progress feed is closed
FeedClose ==
  /\ pc = "w_feed"
  /\ progressOpen
  /\ progressOpen' = FALSE
  /\ UNCHANGED <<watching, success, errorChannel, errClosed, delivered, waitErr, errSent>>
  /\ UNCHANGED restOfProgram

\* the error feed delivers a value: nil or an error
FeedError ==
  /\ pc = "w_feed"
  /\ errSent = "none"
  /\ ~errClosed
  /\ \E v \in {Nil, Err} :
       /\ errorChannel' = <<v>>
       /\ errSent' = v
  /\ UNCHANGED <<watching, success, progressOpen, errClosed, delivered, waitErr>>
  /\ UNCHANGED restOfProgram

\* the error feed is closed
FeedErrorClose ==
  /\ pc = "w_feed"
  /\ ~errClosed
  /\ errClosed' = TRUE
  /\ UNCHANGED <<watching, success, progressOpen, errorChannel, delivered, waitErr, errSent>>
  /\ UNCHANGED restOfProgram

\* lines 63-68: after the range loop, read the error channel unless success; return
WaitReturnOnly ==
  /\ pc = "w_feed"
  /\ WaitCanReturn
  /\ waitErr' = WaitResult(success, errorChannel)
  /\ errorChannel' = IF ~success /\ errorChannel # <<>> THEN Tail(errorChannel) ELSE errorChannel
  /\ pc' = "w_done"
  /\ UNCHANGED <<exitCode, fatalMsg, fatalArg, fatalStep, fatalCond>>
  /\ UNCHANGED <<watching, success, progressOpen, errClosed, delivered, errSent>>
  /\ UNCHANGED <<copy, run, outVars, cfgVars, pipeVars, sessVars, resVars, idx, fileVars, sshVars, envVars,
                 ops, waited, lookupResult, resolveFailed, resolved, prevResolved, refMissing, summary>>

NextWait ==
  \/ FeedProgress
  \/ FeedClose
  \/ FeedError
  \/ FeedErrorClose
  \/ WaitReturnOnly

SpecWait == InitWait /\ [][NextWait]_vars

\* --------------------------------------------------- runs that go on
\* Every external call returns, the client's poller goes on until it has closed the
\* feeds and the provider's actions finish: a step of the run that can be taken is
\* taken. Whether the program is started again is up to its user.
RunStep ==
  \/ CheckArgs
  \/ ParseConfigStep
  \/ GetSSHKey
  \/ GetNetwork
  \/ LookupServer
  \/ ExistingServer
  \/ GetServerType
  \/ GetImage
  \/ GetLocation
  \/ CreateServer
  \/ WaitForActionCall
  \/ WatchProgressPoll
  \/ WaitForActionReturn
  \/ Refetch
  \/ Render
  \/ Transpile
  \/ EnableRescue
  \/ Power
  \/ Sleep
  \/ SSHAuth
  \/ Connect
  \/ CheckConnection
  \/ PlaceInstaller
  \/ UploadIgnition
  \/ RunCommand
  \/ RebootCommand
  \/ PrintSummary
  \/ ReturnMain
  \/ ProviderFinish

\* the whole run, and waitForAction on its own with feeds of any behaviour
InitLive == Init \/ InitWait

NextLive == Next \/ NextWait

\* for the feeds on their own: the progress feed is eventually closed, the error
\* feed eventually delivers a value or is closed, and the receive that can complete
\* completes
SpecLive ==
  /\ InitLive
  /\ [][NextLive]_vars
  /\ WF_vars(RunStep)
  /\ WF_vars(FeedClose)
  /\ WF_vars(FeedError \/ FeedErrorClose)
  /\ WF_vars(WaitReturnOnly)

\* ------------------------------------------- the command loop with output
\* The command loop of a run that found its machine with the network attached and
\* rescue enabled, rebooted it, connected at the first attempt and placed both
\* artifacts; from here on the commands' output and the reader goroutines are followed.
InitCmd ==
  /\ copy \in {1, 2}
  /\ run = 1
  /\ provider = [exists |-> TRUE, attached |-> TRUE, rescue |-> TRUE, running |-> TRUE]
  /\ act = [a \in ActionIds |-> IF a = <<"power", 0>> THEN "success" ELSE "none"]
  /\ prevResolved = FALSE
  /\ refMissing = FALSE
  /\ pc = "commands"
  /\ exitCode = -1
  /\ fatalMsg = ""
  /\ fatalArg = ""
  /\ fatalStep = ""
  /\ argc = 2
  /\ cfg = Settings
  /\ cfgErr = Nil
  /\ tmplRef = "unset"
  /\ transpileIn = {}
  /\ transpileCalls = Stages
  /\ installScript = "set"
  /\ placed = <<installScriptTarget, ignitionTarget>>
  /\ cmdFailed = ""
  /\ command = ""
  /\ readers = {}
  /\ pipe = NoOutput
  /\ printed = <<>>
  /\ otherFails = 0
  /\ fatalCond = FALSE
  /\ server = [exists |-> TRUE, attached |-> TRUE, rescue |-> TRUE, running |-> TRUE]
  /\ serverExists = TRUE
  /\ serverType = "unset"
  /\ image = "unset"
  /\ location = "unset"
  /\ createOpts = <<>>
  /\ nextActions = 0
  /\ idx = 1
  /\ watching = <<>>
  /\ success = FALSE
  /\ progressOpen = FALSE
  /\ errorChannel = <<>>
  /\ errClosed = FALSE
  /\ delivered = <<>>
  /\ waitErr = "unset"
  /\ errSent = "none"
  /\ tmpFile = "exists"
  /\ renderedPath = "path"
  /\ deferred = <<"remove", "close">>
  /\ retries = 1
  /\ connectionSuccess = TRUE
  /\ sshClient = 1
  /\ sessionOpen = TRUE
  /\ netFails = 0
  /\ ops = <<"get_sshkey", "get_network", "lookup", "render", "transpile", "reboot",
             "wait_power", "sleep", "connect", "upload_installer", "upload_ignition">>
  /\ waited = <<<<"power", 0>>>>
  /\ lookupResult = "attached"
  /\ resolveFailed = FALSE
  /\ resolved = TRUE
  /\ summary = FALSE

\* one turn of the loop; some of the command's output may still be unread
RunCommandOutput == RunCommandWith(0..MaxLines)

\* what the reader of command p reads as `command` in
\* log.Printf("%s - %s", command, scanner.Text()): the closure captures the loop
\* variable, which is one variable per iteration (its value stays p) or one variable
\* for the whole loop (its current value), depending on the language version of the build
LabelRead(p) == {p, command}

\* the reader goroutine of a command takes a line from the pipe and logs it; the
\* goroutines end with the process
ReaderDeliver ==
  /\ pc \notin {"exit", "done"}
  /\ \E p \in readers :
       /\ pipe[p] > 0
       /\ pipe' = [pipe EXCEPT ![p] = @ - 1]
       /\ \E label \in LabelRead(p) : printed' = <<label, p>>
  /\ UNCHANGED <<command, readers>>
  /\ UNCHANGED <<copy, run, ctl, cfgVars, pipeVars, sessVars, resVars, idx, fileVars, sshVars,
                 waitVars, envVars, ops, waited, lookupResult, resolveFailed, resolved,
                 prevResolved, refMissing, summary>>

NextCmd ==
  \/ RunCommandOutput
  \/ ReaderDeliver
  \/ RebootCommand
  \/ PrintSummary
  \/ ReturnMain

SpecCmd == InitCmd /\ [][NextCmd]_vars

\* ================================================================ claims
\* the step of the deployment an external operation belongs to
Rank(o) ==
  CASE o \in {"get_sshkey", "get_network"} -> 0
    [] o = "lookup" -> 1
    [] o \in {"attach", "get_servertype", "get_image", "get_location", "create",
              "wait_create", "wait_next", "getbyid"} -> 2
    [] o = "render" -> 3
    [] o = "transpile" -> 4
    [] o \in {"enable_rescue", "wait_rescue"} -> 5
    [] o \in {"reboot", "poweron", "wait_power", "sleep"} -> 6
    [] o \in {"connect", "delay"} -> 7
    [] o \in {"upload_installer", "fetch_installer", "upload_ignition"} -> 8
    [] o \in {"cmd1", "cmd2", "cmd3", "cmd4"} -> 9
    [] o = "reboot_cmd" -> 10

\* C1: the external operations of a run occur in one forward order (lookup, create
\* or attach, render, transpile, enable-rescue, reboot or power-on, connection
\* attempts, uploads, install commands, reboot command): no operation of an earlier
\* step follows an operation of a later step.
C1_ForwardOrder ==
  \A i \in 1..(Len(ops) - 1) : Rank(ops[i]) <= Rank(ops[i + 1])

\* a complete run on the create path that had to retry the connection
C1_Witness ==
  /\ pc = "done"
  /\ Has("create")
  /\ Has("enable_rescue")
  /\ netFails >= 2
  /\ Has("reboot_cmd")

\* C2 (as claimed): once a fatal condition has occurred in a run, that run issues no
\* further cloud request, upload or remote command and never prints the summary.
C2_FatalAborts ==
  [][(fatalCond /\ run' = run) => (ops' = ops /\ summary' = summary)]_vars

\* the create path is still resolving resources, or ended in one of their lookups
CreatePending ==
  \/ pc \in {"c_servertype", "c_image", "c_location", "create"}
  \/ fatalMsg \in {"error finding server type", "error finding image",
                   "error finding location"}

\* C3: the lookup outcome determines the resolver's mutating requests: a lookup
\* error gives no create, no attach and an abort; not found gives no attach and
\* exactly one create (none while, or when the run ended while, the resources of
\* the create call were being resolved); found without the network gives no create
\* and exactly one attach; found with the network gives neither.
C3_MutationsByLookup ==
  /\ lookupResult = "none" => (Count("create") = 0 /\ Count("attach") = 0)
  /\ lookupResult = "error" =>
       (Count("create") = 0 /\ Count("attach") = 0 /\ pc = "exit")
  /\ lookupResult = "absent" =>
       /\ Count("attach") = 0
       /\ Count("create") = IF CreatePending THEN 0 ELSE 1
  /\ lookupResult = "detached" =>
       /\ Count("create") = 0
       /\ Count("attach") = IF pc = "existing" THEN 0 ELSE 1
  /\ lookupResult = "attached" => (Count("create") = 0 /\ Count("attach") = 0)

\* a machine found with the network got through the resolver without a request
C3_Witness ==
  /\ lookupResult = "attached"
  /\ resolved
  /\ Has("transpile")
  /\ Count("attach") = 0

\* C4 (as claimed): when an attach request was issued and the run has continued to
\* the configuration step, the attach action has reached terminal success.
C4_AttachAwaited ==
  (Has("attach") /\ resolved) => act[<<"attach", 0>>] = "success"

\* the actions the create call returned, in the order returned
CreatedActions == <<<<"create", 0>>>> \o [i \in 1..nextActions |-> <<"next", i>>]

\* C5: the create request carries auto-start disabled, and on the create path the
\* re-fetch, and every later step, happens only after the creation action and every
\* follow-up action have been waited on, one after another in the order returned,
\* and each has reached terminal success.
C5_CreateAwaited ==
  /\ Has("create") => (createOpts.StartAfterCreate = FALSE)
  /\ (Has("create") /\ (Has("getbyid") \/ resolved)) =>
       /\ Len(waited) >= Len(CreatedActions)
       /\ SubSeq(waited, 1, Len(CreatedActions)) = CreatedActions
       /\ \A i \in 1..Len(CreatedActions) : act[CreatedActions[i]] = "success"
  /\ (Has("create") /\ ~Has("getbyid")) => \A i \in 1..Len(ops) : Rank(ops[i]) <= 2

\* the re-fetch after a create that returned the most follow-up actions
C5_Witness ==
  /\ Has("getbyid")
  /\ nextActions = MaxNext
  /\ resolved
  /\ Len(waited) = MaxNext + 1

\* C6 (as claimed): after a run in which the resolver finished, a second run against
\* the resulting provider state issues no create and no attach.
C6_SecondRunIdle ==
  (run >= 2 /\ prevResolved) => (~Has("create") /\ ~Has("attach"))

\* C7 (as claimed): when the lookup of the server type, the image or the
\* location/datacenter failed or found no such resource, no create request is issued.
C7_NoCreateUnresolved ==
  resolveFailed => ~Has("create")

\* C8: when waitForAction has returned, it returned nil if the progress sequence
\* ended in 100, and the value the error feed delivered if no 100 was delivered.
C8_WaitResult ==
  pc = "w_done" =>
    /\ (delivered # <<>> /\ delivered[Len(delivered)] = 100) => waitErr = Nil
    /\ ((\A i \in 1..Len(delivered) : delivered[i] # 100) /\ errSent # "none") =>
         waitErr = errSent

\* a feed closed after progress below 100, with an error on the error feed
C8_Witness ==
  /\ pc = "w_done"
  /\ Len(delivered) >= 2
  /\ \A i \in 1..Len(delivered) : delivered[i] # 100
  /\ errSent = Err
  /\ waitErr = Err

\* C9: when the connection succeeds after N network errors, N <= 29, exactly N
\* delays and N + 1 attempts were made and the session is that of attempt N + 1;
\* the loop gives up on no fewer than 30 network errors, so every such N occurs.
C9_RetryThenSuccess ==
  /\ connectionSuccess =>
       /\ netFails <= 29
       /\ Count("connect") = netFails + 1
       /\ Count("delay") = netFails
       /\ sshClient = netFails + 1
       /\ pc # "exit" => sessionOpen \/ pc = "done"
  /\ (pc = "checkconn" /\ ~connectionSuccess) => netFails = 30

\* the 30th attempt succeeded after 29 network errors and the run went on
C9_Witness ==
  /\ connectionSuccess
  /\ netFails = 29
  /\ sshClient = 30
  /\ Has("upload_ignition")

\* an upload or a remote command
RemoteOps == {"upload_installer", "fetch_installer", "upload_ignition",
              "cmd1", "cmd2", "cmd3", "cmd4", "reboot_cmd"}

\* C10: when every attempt fails with a network error the run makes exactly 30
\* attempts, never a 31st, and aborts with the connection failure, having issued no
\* upload and no remote command.
C10_RetryExhausted ==
  /\ Count("connect") <= 30
  /\ netFails = 30 =>
       /\ Count("connect") = 30
       /\ ~connectionSuccess
       /\ pc \in {"connect", "checkconn", "exit"}
       /\ pc = "exit" => fatalMsg = "ssh connection wasn't successful"
       /\ \A i \in 1..Len(ops) : ops[i] \notin RemoteOps
  /\ fatalMsg = "ssh connection wasn't successful" =>
       (netFails = 30 /\ Count("connect") = 30)

\* the run that gave up after 30 network errors
C10_Witness ==
  /\ pc = "exit"
  /\ fatalMsg = "ssh connection wasn't successful"
  /\ Count("connect") = 30
  /\ netFails = 30

\* C11: a connection failure that is not a network error, at the first attempt or
\* after retried ones, ends the run at once with status 1: that attempt is the last
\* operation of the run, so no further attempt and no further delay follows it.
C11_UnretriableAborts ==
  otherFails > 0 =>
    /\ otherFails = 1
    /\ pc = "exit" /\ exitCode = 1
    /\ fatalMsg = "unretriable error while etablishing ssh connection"
    /\ ~connectionSuccess /\ sshClient = 0
    /\ ops[Len(ops)] = "connect"
    /\ Count("connect") = netFails + 1
    /\ Count("delay") = netFails

\* an unretriable failure at the third attempt
C11_Witness == otherFails = 1 /\ netFails = 2 /\ pc = "exit"

\* the commands of the run, install commands first, the reboot command last
AllCommands == <<"cmd1", "cmd2", "cmd3", "cmd4", "reboot_cmd">>
InstallCommands == {"cmd1", "cmd2", "cmd3", "cmd4"}

\* the remote commands started so far, in the order they were started
Started == SelectSeq(ops, LAMBDA o : o \in InstallCommands \cup {"reboot_cmd"})

\* C12: the install commands are started one after another in list order; when the
\* one at position i fails, it is the last operation of the run: nothing after it is
\* started, the reboot command is not issued, and the run ends with status 1 and a
\* message that names the failed command.
C12_CommandsInOrder ==
  /\ Started = SubSeq(AllCommands, 1, Len(Started))
  /\ cmdFailed \in InstallCommands =>
       /\ pc = "exit" /\ exitCode = 1 /\ ~summary
       /\ fatalMsg = "error running command" /\ fatalArg = cmdFailed
       /\ ops[Len(ops)] = cmdFailed
       /\ Started[Len(Started)] = cmdFailed
       /\ ~Has("reboot_cmd")

\* the second of the four install commands failed after the first succeeded
C12_Witness == cmdFailed = "cmd2" /\ Started = <<"cmd1", "cmd2">> /\ pc = "exit"

\* C13: when the reboot command returns an error after all install commands
\* succeeded, the run goes on to print the summary; when any other command returns an
\* error the run ends with status 1.
C13_RebootFailureTolerated ==
  /\ cmdFailed = "reboot_cmd" => (pc = "summary" \/ summary)
  /\ cmdFailed \in InstallCommands => (pc = "exit" /\ exitCode = 1 /\ ~summary)

\* the process has ended: main returned or log.Fatalf / os.Exit ended it
Ended == pc \in {"exit", "done"}

\* C14: once transpileConfig has handed main the transient file, the file is deleted
\* by the time the process has ended, whether main returned or a later step was fatal.
C14_TempFileRemoved == (Ended /\ renderedPath = "path") => tmpFile = "removed"

\* C15: once a connection attempt has produced the remote session, the session is
\* closed by the time the process has ended, whether main returned or an upload or a
\* command was fatal.
C15_SessionClosed == (Ended /\ sshClient # 0) => ~sessionOpen

\* the wait on action a returned without error
Awaited(a) == \E i \in 1..Len(waited) : waited[i] = a

\* C16: an enable-rescue request is issued exactly when main's machine record does
\* not have rescue enabled, and its action is waited on before the power request; a
\* run issues one power request, a reboot when the record's status is running and a
\* power-on otherwise, and waits on its action; a connection attempt is made only
\* after the power action has succeeded.
C16_RescueSequencer ==
  /\ Has("enable_rescue") => ~server.rescue
  /\ Count("enable_rescue") <= 1
  /\ Count("reboot") + Count("poweron") <= 1
  /\ Has("reboot") => server.running
  /\ Has("poweron") => ~server.running
  /\ (Has("reboot") \/ Has("poweron")) =>
       /\ Has("enable_rescue") <=> ~server.rescue
       /\ Has("enable_rescue") =>
            (Awaited(<<"rescue", 0>>) /\ act[<<"rescue", 0>>] = "success")
  /\ (Has("sleep") \/ Has("connect")) =>
       /\ Count("reboot") + Count("poweron") = 1
       /\ Awaited(<<"power", 0>>)
       /\ act[<<"power", 0>>] = "success"

\* a running machine without rescue: rescue enabled, rebooted, then a connection attempt
C16_Witness ==
  /\ Has("enable_rescue") /\ Has("reboot") /\ Has("connect")
  /\ server.running /\ ~server.rescue

\* the settings the configuration must give
RequiredSettings == {"Token", "SSHKey", "PrivateNetwork", "ServerType", "Location", "Version"}

\* C17: a run without the positional argument, and a run whose config.toml lacks a
\* required setting, end with status 1 without having issued any cloud request.
C17_ConfigErrorsFirst ==
  /\ argc = 1 => (pc = "exit" /\ exitCode = 1 /\ ops = <<>>)
  /\ (cfgErr # "unset" /\ ~(RequiredSettings \subseteq cfg)) =>
       (pc = "exit" /\ exitCode = 1 /\ ops = <<>> /\ cfgErr # Nil)

\* only the Flatcar version is missing: the image was defaulted, the run ended
C17_Witness ==
  /\ cfg = (RequiredSettings \ {"Version"}) \cup {"Image"}
  /\ cfgErr = "flatcar version missing"
  /\ pc = "exit"

\* C18: when the template the render step loaded refers to something its data does
\* not define, the run ends at the render step with the render error: transpileConfig
\* is never called and no file is created.
C18_UndefinedFieldFatal ==
  tmplRef \in {"undefined_field", "undefined_static_key"} =>
    /\ pc = "exit" /\ exitCode = 1
    /\ fatalMsg = "error rendering template"
    /\ ~Has("transpile")
    /\ tmpFile = "none"

\* C19: when the parse report is fatal transpileConfig returns the parse error after
\* calling Parse only; when the parse report is not fatal and the conversion report
\* is, it returns the conversion error, a different one; in both cases the path it
\* returns is empty and no file has been created.
C19_TranspileErrors ==
  transpileCalls # <<>> =>
    /\ "Parse" \in transpileIn =>
         /\ fatalMsg = "error transpiling config" /\ fatalArg = "config parsing failed"
         /\ transpileCalls = <<"Parse">>
         /\ renderedPath = "" /\ tmpFile = "none" /\ pc = "exit"
    /\ ("Parse" \notin transpileIn /\ "Convert" \in transpileIn) =>
         /\ fatalMsg = "error transpiling config" /\ fatalArg = "config conversion failed"
         /\ transpileCalls = <<"Parse", "Convert">>
         /\ renderedPath = "" /\ tmpFile = "none" /\ pc = "exit"

\* an input for which both reports would be fatal: only Parse was called
C19_Witness ==
  /\ transpileIn = {"Parse", "Convert"}
  /\ transpileCalls = <<"Parse">>
  /\ fatalArg = "config parsing failed"

\* the operations that place an artifact on the machine
PlacementOps == {"upload_installer", "fetch_installer", "upload_ignition"}

\* the placements attempted so far, in order
Placements == SelectSeq(ops, LAMBDA o : o \in PlacementOps)

\* C20: when the first install command is about to run or has run, the installer and
\* then the configuration artifact have been placed at their fixed paths, each by one
\* attempt that succeeded, and before every command; the installer is placed by one
\* means, the upload when a local file is configured and the fetch when none is; a
\* placement that fails ends the run with status 1 before any command.
C20_ArtifactsPlacedFirst ==
  /\ (pc = "commands" \/ Started # <<>>) =>
       /\ placed = <<installScriptTarget, ignitionTarget>>
       /\ Placements = <<IF installScript = "empty" THEN "fetch_installer"
                         ELSE "upload_installer", "upload_ignition">>
       /\ SelectSeq(ops, LAMBDA o : o \in PlacementOps \cup InstallCommands \cup {"reboot_cmd"})
            = Placements \o Started
  /\ Count("upload_installer") + Count("fetch_installer") <= 1
  /\ Has("upload_installer") => installScript = "set"
  /\ Has("fetch_installer") => installScript = "empty"
  /\ (installScript # "unread" /\ Len(placed) < 2 /\ pc # "upload_ign") =>
       (pc = "exit" /\ exitCode = 1 /\ Started = <<>>)

\* no local file configured: the installer was fetched, then the install began
C20_Witness ==
  /\ installScript = "empty" /\ Has("fetch_installer")
  /\ placed = <<installScriptTarget, ignitionTarget>>
  /\ Has("cmd1")

\* the operations of a run that creates its machine, finds rescue disabled and the
\* machine stopped, and connects at the first attempt, in order
ScenarioOps(script) ==
  <<"get_sshkey", "get_network", "lookup", "get_servertype", "get_image", "get_location",
    "create", "wait_create", "getbyid", "render", "transpile",
    "enable_rescue", "wait_rescue", "poweron", "wait_power", "sleep", "connect",
    IF script = "empty" THEN "fetch_installer" ELSE "upload_installer", "upload_ignition",
    "cmd1", "cmd2", "cmd3", "cmd4", "reboot_cmd">>

\* the run is in the scenario: no machine of that name, no follow-up action, no
\* connection failure, and no step has failed
InScenario ==
  /\ lookupResult = "absent"
  /\ nextActions = 0
  /\ netFails = 0 /\ otherFails = 0
  /\ ~fatalCond

\* C21: in that scenario the run issues the operations of ScenarioOps and no other,
\* in that order (one create with the network in its options and no attach, one wait,
\* one re-fetch, render, transpile, enable-rescue and its wait, power-on and its wait,
\* the settle delay, one connection attempt, the two placements, the four install
\* commands, the reboot command), and the summary is printed only after all of them.
C21_CreateScenario ==
  InScenario =>
    /\ Len(ops) <= Len(ScenarioOps(installScript))
    /\ ops = SubSeq(ScenarioOps(installScript), 1, Len(ops))
    /\ Has("create") => createOpts.Networks = "privateNetwork"
    /\ Has("getbyid") => (~server.rescue /\ ~server.running)
    /\ summary => ops = ScenarioOps(installScript)

\* the scenario ran to its end: main returned with status 0
C21_Witness ==
  /\ InScenario /\ summary /\ pc = "done" /\ exitCode = 0
  /\ ops = ScenarioOps(installScript)

Steps == {"configuration", "resolution", "pipeline", "rescue", "session"}

\* the message texts, without the cause, of the fatal exits of each step
StepMessages(s) ==
  CASE s = "configuration" -> {"usage", "error parsing config"}
    [] s = "resolution" ->
         {"error requesting ssh key", "ssh key doesn't exist", "error requesting network",
          "network doesn't exist", "error finding server", "error request attach to network",
          "error attaching server to network", "error finding server type",
          "error finding image", "error finding location", "error creating server",
          "error waiting for action", "error requesting updated server object"}
    [] s = "pipeline" ->
         {"error loading template", "error rendering template",
          "error marshaling hcloud data to yaml", "error running template command",
          "error transpiling config", "error removing tempfile"}
    [] s = "rescue" ->
         {"error sending enablerescue request", "error enabling rescue",
          "error waiting for action", "error sending reboot or poweron request",
          "error rebooting or powering on server"}
    [] s = "session" ->
         {"error building ssh authentication", "",
          "unretriable error while etablishing ssh connection",
          "ssh connection wasn't successful", "error uploading flatcar-install script",
          "error creating cmd for install script download", "error downloading install script",
          "error uploading ignition file", "error creating goph.Cmd",
          "error creating stdoutpipe", "error running command",
          "error creating goph.Cmd for reboot command"}

\* C22: the message of a fatal failure is one that no other step uses: a failure in
\* one step never carries a message text that a failure in a different step carries.
C22_DistinctMessages ==
  fatalStep # "" =>
    /\ fatalMsg \in StepMessages(fatalStep)
    /\ \A s \in Steps \ {fatalStep} : fatalMsg \notin StepMessages(s)

\* the cloud requests that change the machine, the ones that fetch its record, and
\* the operations that read main's record: render (template data), enable-rescue
\* (rescue flag), reboot or power-on (status), connect (public address)
MutatingOps == {"create", "attach", "enable_rescue", "reboot", "poweron"}
FetchOps == {"lookup", "getbyid"}
ReadOps == {"render", "enable_rescue", "reboot", "poweron", "connect"}

\* the record read by the operation at position r was fetched after every mutating
\* request issued before r
FreshAt(r) ==
  \A m \in 1..(r - 1) :
    ops[m] \in MutatingOps => \E f \in (m + 1)..(r - 1) : ops[f] \in FetchOps

\* C23: whenever a step reads the machine record (and when the summary is printed
\* from it), the record was re-fetched from the provider after every mutating request
\* the run had issued before.
C23_RecordFresh ==
  /\ \A r \in 1..Len(ops) : ops[r] \in ReadOps => FreshAt(r)
  /\ summary => FreshAt(Len(ops) + 1)

\* C24: when a later command has been started, or the summary has been printed, no
\* line of an earlier, finished command is still waiting to be logged.
C24_ReaderJoined ==
  /\ \A i \in 1..(Len(Started) - 1) : pipe[Started[i]] = 0
  /\ summary => \A c \in CommandSet : pipe[c] = 0

\* C25: every line the readers logged carries the command that produced it.
C25_LabelsRight == printed # <<>> => printed[1] = printed[2]

\* C26: when transpileConfig has returned an error, whichever stage failed, no file
\* that it created is on disk.
C26_NoFileOnError ==
  (transpileCalls # <<>> /\ TranspileErr(TranspileStep(transpileIn)) # Nil) =>
    (renderedPath = "" /\ tmpFile = "none")

\* C27: when waitForAction has returned and any delivered progress value was 100,
\* also one followed by lower values, it returned nil and did not read the error
\* feed: a value sent there is still pending.
C27_HundredWins ==
  (pc = "w_done" /\ \E i \in 1..Len(delivered) : delivered[i] = 100) =>
    /\ waitErr = Nil
    /\ errSent # "none" => errorChannel = <<errSent>>

\* a 100 followed by a lower value, with an error pending on the error feed
C27_Witness ==
  /\ pc = "w_done"
  /\ \E i \in 1..(Len(delivered) - 1) : delivered[i] = 100 /\ delivered[i + 1] < 100
  /\ errSent = Err
  /\ errorChannel = <<Err>>
  /\ waitErr = Nil

Terminated == pc \in {"exit", "done"}

\* the progress feed is open, or it closed without a 100 while the error feed has
\* neither delivered a value nor been closed
FeedsPending == progressOpen \/ (~success /\ errorChannel = <<>> /\ ~errClosed)

\* C28: with calls that return and feeds that are closed, every started run ends (in
\* success or in a fatal error) and every call of waitForAction returns; and
\* waitForAction returns only once the progress feed is closed and it saw a 100 or
\* the error feed has delivered or is closed: while the feeds are pending it cannot
\* return, whatever time passes.
C28_Terminates ==
  /\ (pc = "args") ~> Terminated
  /\ (pc = "w_feed") ~> (pc = "w_done")
  /\ [][(pc \in WaitPcs /\ watching # <<>> /\ watching' = <<>>) => ~FeedsPending]_vars
  /\ [][(pc = "w_feed" /\ pc' = "w_done") => ~FeedsPending]_vars
  /\ []((pc = "w_feed" /\ FeedsPending) => ~ENABLED WaitReturnOnly)

\* a run that waited for an action and for all 30 connection attempts has ended
C28_Witness ==
  /\ Terminated
  /\ waited # <<>>
  /\ Count("connect") = initialRetries

\* C29: in a run whose ssh key lookup or network lookup returned an error or no
\* such resource, no mutating cloud request (create, attach, enable-rescue, reboot,
\* power-on) is issued.
C29_NoMutationUnresolved ==
  refMissing => SelectSeq(ops, LAMBDA o : o \in MutatingOps) = <<>>

\* a second run, after one that went through, ended by a network that is not there
C29_Witness ==
  /\ refMissing
  /\ run = 2
  /\ Terminated
  /\ fatalMsg = "network doesn't exist"
  /\ ops = <<"get_sshkey", "get_network">>

====
